---- MODULE Spec2Model ----
(***************************************************************************)
(* Model of the Lagardere receipt scripts: the 'ПРЕДАЛ' field extraction,  *)
(* the per-run url_cache row loop of the four entry points (app.py,        *)
(* desktop_app.py, lagardere_table.py, extract_predal.py) and the          *)
(* grouping / summary engine of desktop_app.py.                            *)
(*                                                                         *)
(* Text is modelled as a sequence of one-character tokens.  Cyrillic       *)
(* letters are transliterated: "P","R","E","D","A","L" are the capital     *)
(* letters of the marker ПРЕДАЛ and "p","r","e","d","a","l" their small    *)
(* forms; "ss" is the German sharp s, whose upper() is the two letters     *)
(* "S","S"; "nbsp" is U+00A0 and "tab" is U+0009.  Document text and names *)
(* are Cyrillic, product names are Latin; the two never meet in one        *)
(* string, so a token stands for the letter of the string it is in.        *)
(* Dates, which the code only compares and sorts, are sequences of code    *)
(* points.  Python's None is the one-token sequence None, the empty string *)
(* is << >>.                                                               *)
(***************************************************************************)
EXTENDS Integers, Sequences, FiniteSets, TLC

VARIABLES
    chunks,        \* extract_predal_from_chunks: the argument
    ex_pc,         \* "call" before the function has run, "done" after
    ex_result,     \* the value the function returned
    entry,         \* the entry point that runs: "app", "desktop", "table", "extract"
    fetch_predal,  \* app.py: the check box that turns the fetching on
    delay,         \* the configured delay, 0 when none
    readable,      \* whether the workbook can be read
    headers,       \* whether row 1 of the workbook names the required columns
    sheet,         \* the rows the loader yields from the workbook
    pc,            \* "load", "loop", "done", "failed", "crashed"
    rows,          \* the loaded rows
    row_i,         \* the number of rows the loop has processed (i of enumerate)
    url_cache,     \* link -> resolved value
    output_rows,   \* the rows appended so far
    fetch_log,     \* history: <<row index, link, outcome>> of every fetch_html call
    sleeps,        \* history: the row indexes at which time.sleep ran
    written,       \* the rows handed to the output writer, None before
    message,       \* the counts shown to the user at the end, -1 when not shown
    ag_rows,       \* build_output: the rows argument
    ag_pc,         \* "build" while build_output runs, "saved" after wb.save
    ag_k,          \* the number of rows the grouping loop has taken
    colleague_order, \* the group names in order of appearance
    by_colleague,  \* group name -> the rows of the group
    sheets,        \* the sheets created so far, one per group
    fn_arg,        \* a text function called on its own: the argument
    fn_pc,         \* "call" before the call, the function's name after
    fn_result,     \* the value the function returned
    sm_given,      \* build_summary_for_colleague: the rows as the caller built them
    sm_rows,       \* the list object passed to the calls
    sm_pc,         \* "first", "second", "done": the call that comes next
    sm_first,      \* the result of the first call
    sm_second,     \* the result of the second call
    input_path,    \* MainWindow: whether an input file has been chosen
    run_btn,       \* whether the run button is enabled
    workers,       \* the Worker of every started run: position, total, i, signals emitted
    queue,         \* the signals emitted and not yet handled by the main thread
    handled,       \* history: the signals the main thread has handled
    last_start     \* the outcome of the last call of start and the runs before it

None == <<"None">>

\* ------------------------------------------------------------------ text

\* The letters of the model with both cases, capital and small form at the
\* same position ("YA"/"ya" is the Cyrillic letter я).
CapitalLetters ==
    <<"A", "B", "C", "D", "E", "F", "G", "H", "I", "J", "K", "L", "M", "N", "O",
      "P", "Q", "R", "S", "T", "U", "V", "W", "X", "Y", "Z", "YA">>

SmallLetters ==
    <<"a", "b", "c", "d", "e", "f", "g", "h", "i", "j", "k", "l", "m", "n", "o",
      "p", "q", "r", "s", "t", "u", "v", "w", "x", "y", "z", "ya">>

\* str.upper() of one character; a character may upper-case to two.
UpperChar(c) ==
    IF \E k \in 1..Len(SmallLetters) : SmallLetters[k] = c
    THEN <<CapitalLetters[CHOOSE k \in 1..Len(SmallLetters) : SmallLetters[k] = c]>>
    ELSE IF c = "ss" THEN <<"S", "S">>
    ELSE <<c>>

RECURSIVE Upper(_)
Upper(s) == IF s = << >> THEN << >> ELSE UpperChar(Head(s)) \o Upper(Tail(s))

\* s[k:] of Python, k >= 0: empty when k is past the end.
SliceFrom(s, k) == IF k >= Len(s) THEN << >> ELSE SubSeq(s, k + 1, Len(s))

\* s[:k] of Python, 0 <= k.
SliceTo(s, k) == IF k >= Len(s) THEN s ELSE SubSeq(s, 1, k)

\* str.find: the 0-based index of the first occurrence of sub in s, or -1.
Find(s, sub) ==
    LET hits == {k \in 0..(Len(s) - Len(sub)) : SubSeq(s, k + 1, k + Len(sub)) = sub}
    IN  IF hits = {} THEN -1 ELSE CHOOSE k \in hits : \A j \in hits : k <= j

\* sub in s
Contains(s, sub) == Find(s, sub) # -1

RECURSIVE LStrip(_, _)
LStrip(s, cs) ==
    IF s # << >> /\ Head(s) \in cs THEN LStrip(Tail(s), cs) ELSE s

RECURSIVE RStrip(_, _)
RStrip(s, cs) ==
    IF s # << >> /\ s[Len(s)] \in cs THEN RStrip(SubSeq(s, 1, Len(s) - 1), cs) ELSE s

\* The characters str.strip() with no argument removes (Unicode white space).
Whitespace == {" ", "nbsp", "tab"}

Strip(s) == RStrip(LStrip(s, Whitespace), Whitespace)

EndsWith(s, c) == s # << >> /\ s[Len(s)] = c

\* str.lower() of one character; "Idot" (U+0130) lower-cases to two.
LowerChar(c) ==
    IF \E k \in 1..Len(CapitalLetters) : CapitalLetters[k] = c
    THEN <<SmallLetters[CHOOSE k \in 1..Len(CapitalLetters) : CapitalLetters[k] = c]>>
    ELSE IF c = "Idot" THEN <<"i", "dot">>
    ELSE <<c>>

RECURSIVE Lower(_)
Lower(s) == IF s = << >> THEN << >> ELSE LowerChar(Head(s)) \o Lower(Tail(s))

\* Python's `x or ""` on an Optional[str].
OrEmpty(v) == IF v = None THEN << >> ELSE v

\* ------------------------------------------------------------ extraction

MARKER == <<"P", "R", "E", "D", "A", "L">>

\* The characters of after.lstrip(" : ").
MarkerPunct == {" ", ":", "nbsp"}

\* One iteration of the for loop over upper_chunks, for the 1-based index i:
\* the value returned in this iteration, or None when the loop goes on.
IterationNoColonCheck(cs, i) ==
    IF ~Contains(Upper(cs[i]), MARKER) THEN None
    ELSE LET original == cs[i]
             idx      == Find(Upper(original), MARKER)
             after    == LStrip(SliceFrom(original, idx + Len(MARKER)), MarkerPunct)
         IN  IF after # << >> THEN after
             ELSE IF i + 1 <= Len(cs) /\ Strip(cs[i + 1]) # << >>
                  THEN Strip(cs[i + 1])
                  ELSE None

Iteration(cs, i) ==
    IF ~Contains(Upper(cs[i]), MARKER) THEN None
    ELSE LET original   == cs[i]
             idx        == Find(Upper(original), MARKER)
             after      == LStrip(SliceFrom(original, idx + Len(MARKER)), MarkerPunct)
         IN  IF after # << >> THEN after
             ELSE IF i + 1 <= Len(cs)
                     /\ Strip(cs[i + 1]) # << >>
                     /\ ~EndsWith(Strip(cs[i + 1]), ":")
                  THEN Strip(cs[i + 1])
                  ELSE None

RECURSIVE ScanLastWins(_, _)
ScanLastWins(cs, i) ==
    IF i > Len(cs) THEN None
    ELSE IF ScanLastWins(cs, i + 1) # None THEN ScanLastWins(cs, i + 1)
    ELSE Iteration(cs, i)

\* The loop from index i on: the first iteration that returns decides.
RECURSIVE ScanFrom(_, _)
ScanFrom(cs, i) ==
    IF i > Len(cs) THEN None
    ELSE IF Iteration(cs, i) # None THEN Iteration(cs, i)
    ELSE ScanFrom(cs, i + 1)

ExtractFirstMarkerOnly(cs) ==
    LET ms == {i \in 1..Len(cs) : Contains(Upper(cs[i]), MARKER)}
    IN  IF ms = {} THEN None
        ELSE Iteration(cs, CHOOSE i \in ms : \A j \in ms : i <= j)

extract_predal_from_chunks(cs) == ScanFrom(cs, 1)

\* TextExtractor.handle_data over the data segments of a document, in order:
\* each segment is stripped and kept when something is left.
RECURSIVE html_to_chunks(_)
html_to_chunks(html) ==
    IF html = << >> THEN << >>
    ELSE LET data == Strip(Head(html))
         IN  (IF data # << >> THEN <<data>> ELSE << >>) \o html_to_chunks(Tail(html))

\* "(име, фамилия, подпис):"
BOILERPLATE ==
    <<"(", "i", "m", "e", ",", " ", "f", "a", "m", "i", "l", "i", "ya", ",", " ",
      "p", "o", "d", "p", "i", "s", ")", ":">>

clean_predal(value) ==
    IF value = << >> THEN << >>
    ELSE LET text  == Strip(value)
             idx   == Find(Lower(text), BOILERPLATE)
             text2 == IF idx # -1
                      THEN Strip(SliceTo(text, idx) \o SliceFrom(text, idx + Len(BOILERPLATE)))
                      ELSE text
         IN  RStrip(LStrip(text2, MarkerPunct), MarkerPunct)

RECURSIVE SeqsUpTo(_, _)
SeqsUpTo(S, n) ==
    IF n = 0 THEN { << >> }
    ELSE LET shorter == SeqsUpTo(S, n - 1)
         IN  shorter \cup { Append(q, x) : q \in {r \in shorter : Len(r) = n - 1}, x \in S }

\* ------------------------------------------------- the row loop: inputs

MaxRows == 3

\* A row without a link: load_rows leaves link = None.
NoLink == "-"

\* `if link:` of the loops; the loader yields None or a non-empty target.
Truthy(link) == link # NoLink

\* (number, client, date, product, quantity, link) as load_rows yields them.
InputRows ==
    { <<"n1", "c1", "d1", "p1", "q1", "u1">>,
      <<"n2", "c1", "d2", "p2", "q2", "u1">>,
      <<"n3", "c2", "",   "p1", "q3", "u2">>,
      <<"n4", "c1", "d1", "p2", "",   NoLink>> }

\* extract_predal.py works on the (doc_number, link) pairs of load_links:
\* only rows with a link, each document number once.
LinkPair(row) == <<row[1], row[6]>>

SheetsOf(e) ==
    IF e = "extract"
    THEN { q \in SeqsUpTo({r \in InputRows : Truthy(r[6])}, MaxRows) :
             \A j, k \in 1..Len(q) : q[j][1] = q[k][1] => j = k }
    ELSE SeqsUpTo(InputRows, MaxRows)

\* The documents behind the links, as the data segments the HTML parser
\* reports (before stripping).
DocName ==
    << <<" ", "P", "R", "E", "D", "A", "L", ":", " ">>, <<"X", "x", " ">> >>

DocNoMarker == << <<"Y", "y", ":">>, <<" ">>, <<"Y", "y">> >>

DocBoilerplate ==
    << <<"P", "r", "e", "d", "a", "l", " ">> \o BOILERPLATE \o <<" ", "Y", " ", "y">> >>

\* What one call of fetch_html does: it raises, or returns (text, content_type).
FetchOutcomes ==
    { [kind |-> "raise", html |-> << >>, content_type |-> ""] }
    \cup { [kind |-> "ok", html |-> DocName, content_type |-> "application/pdf"] }
    \cup { [kind |-> "ok", html |-> h, content_type |-> "text/html; charset=utf-8"] :
             h \in {DocName, DocNoMarker, DocBoilerplate} }

\* "text/html" in content_type
IsTextHtml(content_type) ==
    content_type \in {"text/html", "text/html; charset=utf-8"}

\* For the history: how a fetch ended.
OutcomeTag(o) ==
    IF o.kind = "raise" THEN "raise"
    ELSE IF IsTextHtml(o.content_type) THEN "html" ELSE "nonhtml"

\* ------------------------------------------------ the row loop: the code

\* url_cache[link] = v
CacheStoreDropped(cache, link, v) == cache

CacheStoreClobber(cache, link, v) == [l \in (DOMAIN cache) \cup {link} |-> v]

CacheStore(cache, link, v) ==
    [l \in (DOMAIN cache) \cup {link} |-> IF l = link THEN v ELSE cache[l]]

\* `except Exception:` around fetch_html catches every failure of the fetch.
FetchErrorUncaught == FALSE

FetchErrorCaught == TRUE

\* The value the try block computes from a fetch that returned.
AppResolved(o) ==
    IF IsTextHtml(o.content_type)
    THEN OrEmpty(extract_predal_from_chunks(html_to_chunks(o.html)))
    ELSE << >>

DesktopResolved(o) ==
    clean_predal(IF IsTextHtml(o.content_type)
                 THEN OrEmpty(extract_predal_from_chunks(html_to_chunks(o.html)))
                 ELSE << >>)

TableResolvedAnyType(o) == extract_predal_from_chunks(html_to_chunks(o.html))

TableResolved(o) ==
    IF IsTextHtml(o.content_type)
    THEN extract_predal_from_chunks(html_to_chunks(o.html))
    ELSE None

ExtractResolved(o) ==
    IF ~IsTextHtml(o.content_type)
    THEN None
    ELSE extract_predal_from_chunks(html_to_chunks(o.html))

\* The tuples appended to output_rows / results.
AppOutputRow(row, predal) == <<row[1], predal, row[3], row[4], row[5]>>

DesktopOutputRowShifted(row, predal) == <<row[1], predal, row[2], row[3], row[4], row[6]>>

DesktopOutputRow(row, predal) == <<row[1], predal, row[3], row[4], row[5], row[6]>>

TableOutputRow(row, predal) == <<row[1], OrEmpty(predal), row[3], row[4], row[5]>>

ExtractOutputRow(pair, predal) == <<pair[1], predal, pair[2]>>

\* sum(1 for ... in output_rows if not p): position 2 holds the value.
Missing(out) == Cardinality({k \in 1..Len(out) : OrEmpty(out[k][2]) = << >>})

\* col(name, default) = header_map.get(name, default): a header that is not
\* in row 1 is no error, the column is then looked for at its usual place.
HeaderLookupRaises(named) == FALSE

\* load_rows / load_links raises: load_workbook cannot read the file.
LoadRaises == ~readable \/ HeaderLookupRaises(headers)

\* load_rows / load_links and the checks after it.
Load ==
    /\ pc = "load"
    /\ IF LoadRaises \/ sheet = << >>
       THEN /\ pc' = "failed"
            /\ rows' = rows
       ELSE /\ pc' = "loop"
            /\ rows' = IF entry = "extract"
                       THEN [k \in 1..Len(sheet) |-> LinkPair(sheet[k])]
                       ELSE sheet
    /\ UNCHANGED <<entry, fetch_predal, delay, readable, headers, sheet, row_i, url_cache,
                   output_rows, fetch_log, sleeps, written, message>>

\* app.py: one iteration of the loop of main.
AppRow ==
    /\ pc = "loop" /\ entry = "app" /\ row_i < Len(rows)
    /\ \E o \in FetchOutcomes :
         LET row      == rows[row_i + 1]
             link     == row[6]
             attempt  == fetch_predal /\ Truthy(link)
             hit      == link \in DOMAIN url_cache
             fetching == attempt /\ ~hit
             escapes  == fetching /\ o.kind = "raise" /\ ~FetchErrorCaught
             predal   == IF ~attempt THEN << >>
                         ELSE IF hit THEN OrEmpty(url_cache[link])
                         ELSE IF o.kind = "raise" THEN << >>
                         ELSE AppResolved(o)
         IN  /\ fetch_log' = IF fetching
                             THEN Append(fetch_log, <<row_i + 1, link, OutcomeTag(o)>>)
                             ELSE fetch_log
             /\ IF escapes
                THEN /\ pc' = "crashed"
                     /\ UNCHANGED <<url_cache, sleeps, output_rows, row_i>>
                ELSE /\ pc' = "loop"
                     /\ url_cache' = IF fetching
                                     THEN CacheStore(url_cache, link, predal)
                                     ELSE url_cache
                     /\ sleeps' = IF attempt /\ delay # 0
                                  THEN Append(sleeps, row_i + 1) ELSE sleeps
                     /\ output_rows' = Append(output_rows, AppOutputRow(row, predal))
                     /\ row_i' = row_i + 1
    /\ UNCHANGED <<entry, fetch_predal, delay, readable, headers, sheet, rows, written, message>>

\* desktop_app.py: one iteration of the loop of Worker.run.
DesktopRow ==
    /\ pc = "loop" /\ entry = "desktop" /\ row_i < Len(rows)
    /\ \E o \in FetchOutcomes :
         LET row      == rows[row_i + 1]
             link     == row[6]
             attempt  == Truthy(link)
             hit      == link \in DOMAIN url_cache
             fetching == attempt /\ ~hit
             escapes  == fetching /\ o.kind = "raise" /\ ~FetchErrorCaught
             predal   == IF ~attempt THEN << >>
                         ELSE IF hit THEN OrEmpty(url_cache[link])
                         ELSE IF o.kind = "raise" THEN << >>
                         ELSE DesktopResolved(o)
         IN  /\ fetch_log' = IF fetching
                             THEN Append(fetch_log, <<row_i + 1, link, OutcomeTag(o)>>)
                             ELSE fetch_log
             /\ IF escapes
                THEN /\ pc' = "crashed"
                     /\ UNCHANGED <<url_cache, sleeps, output_rows, row_i>>
                ELSE /\ pc' = "loop"
                     /\ url_cache' = IF fetching
                                     THEN CacheStore(url_cache, link, predal)
                                     ELSE url_cache
                     /\ sleeps' = IF attempt /\ delay # 0
                                  THEN Append(sleeps, row_i + 1) ELSE sleeps
                     /\ output_rows' = Append(output_rows, DesktopOutputRow(row, predal))
                     /\ row_i' = row_i + 1
    /\ UNCHANGED <<entry, fetch_predal, delay, readable, headers, sheet, rows, written, message>>

\* lagardere_table.py: one iteration of the loop of main.
TableRow ==
    /\ pc = "loop" /\ entry = "table" /\ row_i < Len(rows)
    /\ \E o \in FetchOutcomes :
         LET row      == rows[row_i + 1]
             link     == row[6]
             attempt  == Truthy(link)
             hit      == link \in DOMAIN url_cache
             fetching == attempt /\ ~hit
             escapes  == fetching /\ o.kind = "raise" /\ ~FetchErrorCaught
             predal   == IF ~attempt THEN None
                         ELSE IF hit THEN url_cache[link]
                         ELSE IF o.kind = "raise" THEN None
                         ELSE TableResolved(o)
         IN  /\ fetch_log' = IF fetching
                             THEN Append(fetch_log, <<row_i + 1, link, OutcomeTag(o)>>)
                             ELSE fetch_log
             /\ IF escapes
                THEN /\ pc' = "crashed"
                     /\ UNCHANGED <<url_cache, sleeps, output_rows, row_i>>
                ELSE /\ pc' = "loop"
                     /\ url_cache' = IF fetching
                                     THEN CacheStore(url_cache, link, predal)
                                     ELSE url_cache
                     /\ sleeps' = IF attempt /\ delay # 0
                                  THEN Append(sleeps, row_i + 1) ELSE sleeps
                     /\ output_rows' = Append(output_rows, TableOutputRow(row, predal))
                     /\ row_i' = row_i + 1
    /\ UNCHANGED <<entry, fetch_predal, delay, readable, headers, sheet, rows, written, message>>

\* extract_predal.py: one iteration of the loop of main over the link pairs.
ExtractRow ==
    /\ pc = "loop" /\ entry = "extract" /\ row_i < Len(rows)
    /\ \E o \in FetchOutcomes :
         LET pair     == rows[row_i + 1]
             url      == pair[2]
             hit      == url \in DOMAIN url_cache
             fetching == ~hit
             escapes  == fetching /\ o.kind = "raise" /\ ~FetchErrorCaught
             predal   == IF hit THEN url_cache[url]
                         ELSE IF o.kind = "raise" THEN None
                         ELSE ExtractResolved(o)
         IN  /\ fetch_log' = IF fetching
                             THEN Append(fetch_log, <<row_i + 1, url, OutcomeTag(o)>>)
                             ELSE fetch_log
             /\ IF escapes
                THEN /\ pc' = "crashed"
                     /\ UNCHANGED <<url_cache, sleeps, output_rows, row_i>>
                ELSE /\ pc' = "loop"
                     /\ url_cache' = IF fetching
                                     THEN CacheStore(url_cache, url, predal)
                                     ELSE url_cache
                     /\ sleeps' = IF delay # 0 THEN Append(sleeps, row_i + 1) ELSE sleeps
                     /\ output_rows' = Append(output_rows, ExtractOutputRow(pair, predal))
                     /\ row_i' = row_i + 1
    /\ UNCHANGED <<entry, fetch_predal, delay, readable, headers, sheet, rows, written, message>>

\* After the loop: the output is written and the closing text is shown.
\* app.py shows the preview and the download button; its status line keeps
\* "Обработени: i/total" and names no missing count.
AppFinish ==
    /\ pc = "loop" /\ entry = "app" /\ row_i = Len(rows)
    /\ written' = output_rows
    /\ message' = [processed |-> row_i, missing |-> -1]
    /\ pc' = "done"
    /\ UNCHANGED <<entry, fetch_predal, delay, readable, headers, sheet, rows, row_i, url_cache,
                   output_rows, fetch_log, sleeps>>

\* desktop_app.py: build_output, then done(output_path, missing); on_done
\* replaces the status line by the missing count.
DesktopFinish ==
    /\ pc = "loop" /\ entry = "desktop" /\ row_i = Len(rows)
    /\ written' = output_rows
    /\ message' = [processed |-> -1, missing |-> Missing(output_rows)]
    /\ pc' = "done"
    /\ UNCHANGED <<entry, fetch_predal, delay, readable, headers, sheet, rows, row_i, url_cache,
                   output_rows, fetch_log, sleeps>>

\* lagardere_table.py: write_output, then "Wrote N rows. Missing ... M rows."
TableFinish ==
    /\ pc = "loop" /\ entry = "table" /\ row_i = Len(rows)
    /\ written' = output_rows
    /\ message' = [processed |-> Len(output_rows), missing |-> Missing(output_rows)]
    /\ pc' = "done"
    /\ UNCHANGED <<entry, fetch_predal, delay, readable, headers, sheet, rows, row_i, url_cache,
                   output_rows, fetch_log, sleeps>>

\* extract_predal.py: the CSV, then "Processed N documents. Missing ... M docs."
ExtractFinish ==
    /\ pc = "loop" /\ entry = "extract" /\ row_i = Len(rows)
    /\ written' = output_rows
    /\ message' = [processed |-> Len(output_rows), missing |-> Missing(output_rows)]
    /\ pc' = "done"
    /\ UNCHANGED <<entry, fetch_predal, delay, readable, headers, sheet, rows, row_i, url_cache,
                   output_rows, fetch_log, sleeps>>

\* ------------------------------------------- aggregation: configuration

\* PRODUCT_ORDER, one product a line, character by character.
PRODUCT_ORDER ==
    <<
      \* PAZ X-Freeze
      <<"P", "A", "Z", " ", "X", "-", "F", "r", "e", "e", "z", "e">>,
      \* PAZ X-Freeze +
      <<"P", "A", "Z", " ", "X", "-", "F", "r", "e", "e", "z", "e", " ", "+">>,
      \* PAZ Cool Mint
      <<"P", "A", "Z", " ", "C", "o", "o", "l", " ", "M", "i", "n", "t">>,
      \* PAZ Cool mint +
      <<"P", "A", "Z", " ", "C", "o", "o", "l", " ", "m", "i", "n", "t", " ", "+">>,
      \* PAZ Lush ice
      <<"P", "A", "Z", " ", "L", "u", "s", "h", " ", "i", "c", "e">>,
      \* PAZ Lush ice +
      <<"P", "A", "Z", " ", "L", "u", "s", "h", " ", "i", "c", "e", " ", "+">>,
      \* PAZ Mango
      <<"P", "A", "Z", " ", "M", "a", "n", "g", "o">>,
      \* PAZ Mango winter +
      <<"P", "A", "Z", " ", "M", "a", "n", "g", "o", " ", "w", "i", "n", "t", "e", "r", " ", "+">>,
      \* PAZ Berry frost
      <<"P", "A", "Z", " ", "B", "e", "r", "r", "y", " ", "f", "r", "o", "s", "t">>,
      \* PAZ Berry frost +
      <<"P", "A", "Z", " ", "B", "e", "r", "r", "y", " ", "f", "r", "o", "s", "t", " ", "+">>,
      \* V&YOU Boost+ Cool Berry
      <<"V", "&", "Y", "O", "U", " ", "B", "o", "o", "s", "t", "+", " ", "C", "o", "o", "l", " ", "B", "e", "r", "r", "y">>,
      \* V&YOU Boost+ Intense Mint
      <<"V", "&", "Y", "O", "U", " ", "B", "o", "o", "s", "t", "+", " ", "I", "n", "t", "e", "n", "s", "e", " ", "M", "i", "n", "t">>,
      \* V&YOU Boost+ Fresh Citrus
      <<"V", "&", "Y", "O", "U", " ", "B", "o", "o", "s", "t", "+", " ", "F", "r", "e", "s", "h", " ", "C", "i", "t", "r", "u", "s">>,
      \* V&YOU Boost+ Blueberry Ice
      <<"V", "&", "Y", "O", "U", " ", "B", "o", "o", "s", "t", "+", " ", "B", "l", "u", "e", "b", "e", "r", "r", "y", " ", "I", "c", "e">>,
      \* V&YOU Boost+ Spearmint
      <<"V", "&", "Y", "O", "U", " ", "B", "o", "o", "s", "t", "+", " ", "S", "p", "e", "a", "r", "m", "i", "n", "t">>,
      \* V&YOU Boost+ Grape soda
      <<"V", "&", "Y", "O", "U", " ", "B", "o", "o", "s", "t", "+", " ", "G", "r", "a", "p", "e", " ", "s", "o", "d", "a">>,
      \* V&YOU Boost+ Berry Fizz
      <<"V", "&", "Y", "O", "U", " ", "B", "o", "o", "s", "t", "+", " ", "B", "e", "r", "r", "y", " ", "F", "i", "z", "z">>,
      \* V&YOU Boost+ Mint Freeze
      <<"V", "&", "Y", "O", "U", " ", "B", "o", "o", "s", "t", "+", " ", "M", "i", "n", "t", " ", "F", "r", "e", "e", "z", "e">>,
      \* V&YOU Boost+ Berry Kiwi rush
      <<"V", "&", "Y", "O", "U", " ", "B", "o", "o", "s", "t", "+", " ", "B", "e", "r", "r", "y", " ", "K", "i", "w", "i", " ", "r", "u", "s", "h">>,
      \* V&YOU Boost+ Tropical fusion
      <<"V", "&", "Y", "O", "U", " ", "B", "o", "o", "s", "t", "+", " ", "T", "r", "o", "p", "i", "c", "a", "l", " ", "f", "u", "s", "i", "o", "n">>,
      \* V&YOU Boost Max Frostbite
      <<"V", "&", "Y", "O", "U", " ", "B", "o", "o", "s", "t", " ", "M", "a", "x", " ", "F", "r", "o", "s", "t", "b", "i", "t", "e">>,
      \* V&YOU Boost Max Frutti Blast
      <<"V", "&", "Y", "O", "U", " ", "B", "o", "o", "s", "t", " ", "M", "a", "x", " ", "F", "r", "u", "t", "t", "i", " ", "B", "l", "a", "s", "t">>,
      \* V&YOU Boost Max Savage mango
      <<"V", "&", "Y", "O", "U", " ", "B", "o", "o", "s", "t", " ", "M", "a", "x", " ", "S", "a", "v", "a", "g", "e", " ", "m", "a", "n", "g", "o">>,
      \* 01 Riot Kit Cherry cola
      <<"0", "1", " ", "R", "i", "o", "t", " ", "K", "i", "t", " ", "C", "h", "e", "r", "r", "y", " ", "c", "o", "l", "a">>,
      \* 02 Riot Kit Pink lemonade
      <<"0", "2", " ", "R", "i", "o", "t", " ", "K", "i", "t", " ", "P", "i", "n", "k", " ", "l", "e", "m", "o", "n", "a", "d", "e">>,
      \* 03 Riot Kit Mango peach pineapple
      <<"0", "3", " ", "R", "i", "o", "t", " ", "K", "i", "t", " ", "M", "a", "n", "g", "o", " ", "p", "e", "a", "c", "h", " ", "p", "i", "n", "e", "a", "p", "p", "l", "e">>,
      \* 04 Riot Kit Grape ice
      <<"0", "4", " ", "R", "i", "o", "t", " ", "K", "i", "t", " ", "G", "r", "a", "p", "e", " ", "i", "c", "e">>,
      \* 05 Riot Kit Blueberry sour raspberry
      <<"0", "5", " ", "R", "i", "o", "t", " ", "K", "i", "t", " ", "B", "l", "u", "e", "b", "e", "r", "r", "y", " ", "s", "o", "u", "r", " ", "r", "a", "s", "p", "b", "e", "r", "r", "y">>,
      \* 01 Riot Capsule Cherry cola
      <<"0", "1", " ", "R", "i", "o", "t", " ", "C", "a", "p", "s", "u", "l", "e", " ", "C", "h", "e", "r", "r", "y", " ", "c", "o", "l", "a">>,
      \* 02 Riot Capsule Pink lemonade
      <<"0", "2", " ", "R", "i", "o", "t", " ", "C", "a", "p", "s", "u", "l", "e", " ", "P", "i", "n", "k", " ", "l", "e", "m", "o", "n", "a", "d", "e">>,
      \* 03 Riot Capsule Mango peach pineapple
      <<"0", "3", " ", "R", "i", "o", "t", " ", "C", "a", "p", "s", "u", "l", "e", " ", "M", "a", "n", "g", "o", " ", "p", "e", "a", "c", "h", " ", "p", "i", "n", "e", "a", "p", "p", "l", "e">>,
      \* 04 Riot Capsule Grape ice
      <<"0", "4", " ", "R", "i", "o", "t", " ", "C", "a", "p", "s", "u", "l", "e", " ", "G", "r", "a", "p", "e", " ", "i", "c", "e">>,
      \* 05 Riot Capsule Blueberry sour raspberry
      <<"0", "5", " ", "R", "i", "o", "t", " ", "C", "a", "p", "s", "u", "l", "e", " ", "B", "l", "u", "e", "b", "e", "r", "r", "y", " ", "s", "o", "u", "r", " ", "r", "a", "s", "p", "b", "e", "r", "r", "y">>,
      \* 06 Riot Capsule Strawberry blueberry ice
      <<"0", "6", " ", "R", "i", "o", "t", " ", "C", "a", "p", "s", "u", "l", "e", " ", "S", "t", "r", "a", "w", "b", "e", "r", "r", "y", " ", "b", "l", "u", "e", "b", "e", "r", "r", "y", " ", "i", "c", "e">>,
      \* 07 Riot Capsule Blue cherry burst
      <<"0", "7", " ", "R", "i", "o", "t", " ", "C", "a", "p", "s", "u", "l", "e", " ", "B", "l", "u", "e", " ", "c", "h", "e", "r", "r", "y", " ", "b", "u", "r", "s", "t">>,
      \* 08 Riot Capsule Classic tobacoo
      <<"0", "8", " ", "R", "i", "o", "t", " ", "C", "a", "p", "s", "u", "l", "e", " ", "C", "l", "a", "s", "s", "i", "c", " ", "t", "o", "b", "a", "c", "o", "o">>,
      \* 09 Riot Capsule Banana Ice
      <<"0", "9", " ", "R", "i", "o", "t", " ", "C", "a", "p", "s", "u", "l", "e", " ", "B", "a", "n", "a", "n", "a", " ", "I", "c", "e">>,
      \* 10 Riot Capsule Lime
      <<"1", "0", " ", "R", "i", "o", "t", " ", "C", "a", "p", "s", "u", "l", "e", " ", "L", "i", "m", "e">>,
      \* 11 Riot Capsule Strawberry Kiwi Apple
      <<"1", "1", " ", "R", "i", "o", "t", " ", "C", "a", "p", "s", "u", "l", "e", " ", "S", "t", "r", "a", "w", "b", "e", "r", "r", "y", " ", "K", "i", "w", "i", " ", "A", "p", "p", "l", "e">>,
      \* 12 Riot Capsule Triple Mint
      <<"1", "2", " ", "R", "i", "o", "t", " ", "C", "a", "p", "s", "u", "l", "e", " ", "T", "r", "i", "p", "l", "e", " ", "M", "i", "n", "t">>
    >>

\* BRAND_BOUNDARIES: boundary product -> brand.
BoundaryProducts ==
    << <<"P", "A", "Z", " ", "B", "e", "r", "r", "y", " ", "f", "r", "o", "s", "t", " ", "+">>,
       <<"V", "&", "Y", "O", "U", " ", "B", "o", "o", "s", "t", " ", "M", "a", "x", " ", "S", "a", "v", "a", "g", "e", " ", "m", "a", "n", "g", "o">>,
       <<"0", "5", " ", "R", "i", "o", "t", " ", "K", "i", "t", " ", "B", "l", "u", "e", "b", "e", "r", "r", "y", " ", "s", "o", "u", "r", " ", "r", "a", "s", "p", "b", "e", "r", "r", "y">>,
       <<"1", "2", " ", "R", "i", "o", "t", " ", "C", "a", "p", "s", "u", "l", "e", " ", "T", "r", "i", "p", "l", "e", " ", "M", "i", "n", "t">> >>

BoundaryBrands == <<"PAZ", "V&YOU", "RIOT Kit", "RIOT Capsule">>

IsBoundary(prod) == \E b \in 1..Len(BoundaryProducts) : BoundaryProducts[b] = prod

\* BRAND_BOUNDARIES[prod]
BRAND_BOUNDARIES(prod) ==
    BoundaryBrands[CHOOSE b \in 1..Len(BoundaryProducts) : BoundaryProducts[b] = prod]

\* The keys of BRAND_PRODUCTS.
Brands == {"PAZ", "V&YOU", "RIOT Kit", "RIOT Capsule"}

BRAND_PRODUCTS_overlapping(brand) ==
    CASE brand = "PAZ"          -> SubSeq(PRODUCT_ORDER, 1, 11)
      [] brand = "V&YOU"        -> SubSeq(PRODUCT_ORDER, 11, 23)
      [] brand = "RIOT Kit"     -> SubSeq(PRODUCT_ORDER, 24, 28)
      [] brand = "RIOT Capsule" -> SubSeq(PRODUCT_ORDER, 29, 40)

\* BRAND_PRODUCTS[brand]: the slices [0:10], [10:23], [23:28], [28:40].
BRAND_PRODUCTS(brand) ==
    CASE brand = "PAZ"          -> SubSeq(PRODUCT_ORDER, 1, 10)
      [] brand = "V&YOU"        -> SubSeq(PRODUCT_ORDER, 11, 23)
      [] brand = "RIOT Kit"     -> SubSeq(PRODUCT_ORDER, 24, 28)
      [] brand = "RIOT Capsule" -> SubSeq(PRODUCT_ORDER, 29, 40)

\* "Неизвестен", the name of the group of the rows without a name.
SENTINEL == <<"N", "e", "i", "z", "v", "e", "s", "t", "e", "n">>

\* "Дата", the column label of a group without dated rows, as code points.
PLACEHOLDER == <<1044, 1072, 1090, 1072>>

\* ------------------------------------------------- aggregation: the code

\* Quantities are exact decimals, kept as whole thousandths.
Scale == 1000

Digits == <<"0", "1", "2", "3", "4", "5", "6", "7", "8", "9">>

IsDigit(c) == \E d \in 1..10 : Digits[d] = c

DigitVal(c) == (CHOOSE d \in 1..10 : Digits[d] = c) - 1

RECURSIVE IntOf(_)
IntOf(ds) ==
    IF ds = << >> THEN 0 ELSE 10 * IntOf(SubSeq(ds, 1, Len(ds) - 1)) + DigitVal(ds[Len(ds)])

AllDigits(ds) == \A k \in 1..Len(ds) : IsDigit(ds[k])

\* The first three decimals of a fraction's digits, as thousandths.
FracOf(ds) == IntOf(SubSeq(ds \o <<"0", "0", "0">>, 1, 3))

\* Optional[float]: << >> is None, <<v>> the number v / Scale.
NoAmount == << >>

\* float(text) for texts of signs, digits, decimal points and letters other
\* than those of float's exponent, "inf" and "nan" forms: an optional sign,
\* digits and at most one decimal point give the number, and every other
\* such text raises ValueError, which parse_quantity turns into None.
ParseFloat(text) ==
    LET signed == text # << >> /\ Head(text) \in {"+", "-"}
        body   == IF signed THEN Tail(text) ELSE text
        dot    == Find(body, <<".">>)
        whole  == IF dot = -1 THEN body ELSE SliceTo(body, dot)
        frac   == IF dot = -1 THEN << >> ELSE SliceFrom(body, dot + 1)
        valid  == /\ AllDigits(whole) /\ AllDigits(frac)
                  /\ Len(whole) + Len(frac) > 0
        mag    == IntOf(whole) * Scale + FracOf(frac)
    IN  IF ~valid THEN NoAmount
        ELSE IF signed /\ Head(text) = "-" THEN <<0 - mag>> ELSE <<mag>>

\* str.replace(old, new) for a one-character old; new is a string.
RECURSIVE ReplaceChar(_, _, _)
ReplaceChar(text, old, new) ==
    IF text = << >> THEN << >>
    ELSE (IF Head(text) = old THEN new ELSE <<Head(text)>>)
         \o ReplaceChar(Tail(text), old, new)

parse_quantity_comma_thousands(value) ==
    LET text == Strip(value)
    IN  IF text = << >> THEN NoAmount
        ELSE ParseFloat(ReplaceChar(ReplaceChar(text, " ", << >>), ",", << >>))

parse_quantity(value) ==
    LET text  == Strip(value)
        text1 == ReplaceChar(text, " ", << >>)
        text2 == IF Contains(text1, <<",">>) /\ Contains(text1, <<".">>)
                 THEN ReplaceChar(text1, ",", << >>)
                 ELSE IF Contains(text1, <<",">>)
                 THEN ReplaceChar(text1, ",", <<".">>)
                 ELSE text1
    IN  IF text = << >> THEN NoAmount ELSE ParseFloat(text2)

\* One pass of text.replace("  ", " "): left to right, without overlap.
RECURSIVE ReplaceDoubleSpace(_)
ReplaceDoubleSpace(text) ==
    IF Len(text) < 2 THEN text
    ELSE IF text[1] = " " /\ text[2] = " "
    THEN <<" ">> \o ReplaceDoubleSpace(SliceFrom(text, 2))
    ELSE <<Head(text)>> \o ReplaceDoubleSpace(Tail(text))

\* while "  " in text: text = text.replace("  ", " ")
RECURSIVE CollapseSpaces(_)
CollapseSpaces(text) ==
    IF Contains(text, <<" ", " ">>) THEN CollapseSpaces(ReplaceDoubleSpace(text)) ELSE text

normalize_product(value) == CollapseSpaces(Lower(Strip(value)))

\* product_map = {normalize_product(p): p for p in PRODUCT_ORDER}
NormalizedCatalog == [k \in 1..Len(PRODUCT_ORDER) |-> normalize_product(PRODUCT_ORDER[k])]

InProductMap(key) == \E k \in 1..Len(PRODUCT_ORDER) : NormalizedCatalog[k] = key

\* product_map[key]: a later catalog entry replaces an earlier one of the same key.
ProductMapGet(key) ==
    LET ks == {k \in 1..Len(PRODUCT_ORDER) : NormalizedCatalog[k] = key}
    IN  PRODUCT_ORDER[CHOOSE k \in ks : \A j \in ks : j <= k]

\* totals.get(key, 0.0)
TotalsGet(totals, key) == IF key \in DOMAIN totals THEN totals[key] ELSE 0

\* totals[key] = totals.get(key, 0.0) + amount
AccumulateOverwrite(totals, key, amount) ==
    [x \in (DOMAIN totals) \cup {key} |-> IF x = key THEN amount ELSE totals[x]]

Accumulate(totals, key, amount) ==
    [x \in (DOMAIN totals) \cup {key} |->
        IF x = key THEN TotalsGet(totals, key) + amount ELSE totals[x]]

\* The loop over the rows of build_summary_for_colleague: from the totals
\* and the date set so far to those after the last row.
RECURSIVE SummaryLoop(_, _, _)
SummaryLoop(rs, totals, date_set) ==
    IF rs = << >> THEN [totals |-> totals, date_set |-> date_set]
    ELSE LET row      == Head(rs)
             date_str == row[3]
             dates1   == IF date_str # << >> THEN date_set \cup {date_str} ELSE date_set
             prod_key == normalize_product(row[4])
             amount   == parse_quantity(row[5])
         IN  IF ~InProductMap(prod_key) THEN SummaryLoop(Tail(rs), totals, dates1)
             ELSE IF amount = NoAmount THEN SummaryLoop(Tail(rs), totals, dates1)
             ELSE SummaryLoop(Tail(rs),
                              Accumulate(totals, <<ProductMapGet(prod_key), date_str>>,
                                         amount[1]),
                              dates1)

\* a <= b for Python strings given as code points.
RECURSIVE LexLeq(_, _)
LexLeq(a, b) ==
    IF a = << >> THEN TRUE
    ELSE IF b = << >> THEN FALSE
    ELSE IF a[1] # b[1] THEN a[1] < b[1]
    ELSE LexLeq(Tail(a), Tail(b))

RECURSIVE SortedDescending(_)
SortedDescending(S) ==
    IF S = {} THEN << >>
    ELSE LET m == CHOOSE x \in S : \A y \in S : LexLeq(y, x)
         IN  <<m>> \o SortedDescending(S \ {m})

\* sorted(date_set)
RECURSIVE Sorted(_)
Sorted(S) ==
    IF S = {} THEN << >>
    ELSE LET m == CHOOSE x \in S : \A y \in S : LexLeq(x, y)
         IN  <<m>> \o Sorted(S \ {m})

\* int(value) if value.is_integer() else value
format_num(value) ==
    IF value % Scale = 0 THEN <<"int", value>> ELSE <<"float", value>>

SumTotalsBoundaryOnly(totals, products, date_val) ==
    IF products = << >> THEN 0
    ELSE TotalsGet(totals, <<products[Len(products)], date_val>>)

RECURSIVE SumTotals(_, _, _)
SumTotals(totals, products, date_val) ==
    IF products = << >> THEN 0
    ELSE TotalsGet(totals, <<Head(products), date_val>>)
         + SumTotals(totals, Tail(products), date_val)

\* totals_for_products(products)
totals_for_products(totals, date_headers, products) ==
    [d \in 1..Len(date_headers) |-> SumTotals(totals, products, date_headers[d])]

\* The rows one catalog product adds to summary_rows: its own row and, for
\* a boundary product, the brand row with the empty label after it.
ProductRowsBrandFirst(totals, date_headers, prod) ==
    (IF IsBoundary(prod)
     THEN << << << >>,
                [d \in 1..Len(date_headers) |->
                   format_num(totals_for_products(totals, date_headers,
                                  BRAND_PRODUCTS(BRAND_BOUNDARIES(prod)))[d])] >> >>
     ELSE << >>)
    \o << <<prod, [d \in 1..Len(date_headers) |->
                     format_num(TotalsGet(totals, <<prod, date_headers[d]>>))]>> >>

ProductRows(totals, date_headers, prod) ==
    << <<prod, [d \in 1..Len(date_headers) |->
                  format_num(TotalsGet(totals, <<prod, date_headers[d]>>))]>> >>
    \o (IF IsBoundary(prod)
        THEN << << << >>,
                   [d \in 1..Len(date_headers) |->
                      format_num(totals_for_products(totals, date_headers,
                                     BRAND_PRODUCTS(BRAND_BOUNDARIES(prod)))[d])] >> >>
        ELSE << >>)

\* for prod in PRODUCT_ORDER, from the catalog index k on.
RECURSIVE SummaryRowsFrom(_, _, _)
SummaryRowsFrom(totals, date_headers, k) ==
    IF k > Len(PRODUCT_ORDER) THEN << >>
    ELSE ProductRows(totals, date_headers, PRODUCT_ORDER[k])
         \o SummaryRowsFrom(totals, date_headers, k + 1)

EmptyTotals == [x \in {} |-> 0]

\* (date_headers, summary_rows)
build_summary_for_colleague(rs) ==
    LET after        == SummaryLoop(rs, EmptyTotals, {})
        sorted_dates == Sorted(after.date_set)
        date_headers == IF sorted_dates = << >> THEN <<PLACEHOLDER>> ELSE sorted_dates
    IN  <<date_headers, SummaryRowsFrom(after.totals, date_headers, 1)>>

\* name = row[1].strip() if row[1].strip() else "Неизвестен"
GroupNameUnstripped(row) == IF Strip(row[2]) # << >> THEN row[2] ELSE SENTINEL

GroupName(row) == IF Strip(row[2]) # << >> THEN Strip(row[2]) ELSE SENTINEL

\* str(counter)
RECURSIVE Decimal(_)
Decimal(n) ==
    IF n < 10 THEN <<Digits[n + 1]>> ELSE Decimal(n \div 10) \o <<Digits[(n % 10) + 1]>>

InvalidTitleChars == {"[", "]", ":", "*", "?", "/", "\\"}

\* The while loop of safe_title.
RECURSIVE UniqueTitle(_, _, _, _)
UniqueTitle(title, base, existing, counter) ==
    IF title \notin existing THEN title
    ELSE LET suffix == <<" ">> \o Decimal(counter)
         IN  UniqueTitle(SliceTo(SliceTo(base, 31 - Len(suffix)) \o suffix, 31),
                         base, existing, counter + 1)

safe_title(name, existing) ==
    LET replaced == [k \in 1..Len(name) |->
                        IF name[k] \in InvalidTitleChars THEN "_" ELSE name[k]]
        stripped == Strip(replaced)
        base     == SliceTo(IF stripped = << >> THEN SENTINEL ELSE stripped, 31)
    IN  UniqueTitle(base, base, existing, 2)

\* ----------------------------------------------- aggregation: the inputs

MaxAggRows == 3

DateOne == <<50, 48, 50, 52, 45, 48, 49, 45, 48, 49>>   \* "2024-01-01"

DateTwo == <<50, 48, 50, 52, 45, 48, 49, 45, 48, 50>>   \* "2024-01-02"

NameXx == <<"X", "x">>

XFreeze == PRODUCT_ORDER[1]

\* Output rows (number, predal, date, product, quantity, link) of Worker.run:
\* the name is a result of clean_predal, which may end in a tab or be a
\* lone tab, or is empty.
AggRowPool ==
    { <<"n1", NameXx, DateOne, XFreeze, <<"3">>, "u1">>,
      <<"n2", NameXx, DateOne, XFreeze, <<"2">>, "u1">>,
      <<"n3", NameXx \o <<"tab">>, DateTwo,
        <<"p", "a", "z", " ", " ", "x", "-", "f", "r", "e", "e", "z", "e">>,
        <<"1", "0", ",", "5">>, "u2">>,
      <<"n4", <<"Y">>, DateOne, PRODUCT_ORDER[10], <<"2">>, "u3">>,
      <<"n5", << >>, DateTwo, PRODUCT_ORDER[2], <<"3">>, NoLink>>,
      <<"n6", <<"tab">>, << >>, XFreeze, <<"3">>, "u4">>,
      <<"n7", NameXx, DateTwo, <<"O", "t", "h", "e", "r">>, <<"3">>, "u1">>,
      <<"n8", NameXx, DateOne, XFreeze, <<"a", "b", "c">>, "u1">>,
      <<"n9", SENTINEL, DateOne, PRODUCT_ORDER[11], <<"1", " ", "2", "3", "4", ",", "5">>, "u5">> }

\* --------------------------------------------- aggregation: build_output

\* The grouping loop of build_output: one row.
GroupRow ==
    /\ ag_pc = "build" /\ ag_k < Len(ag_rows)
    /\ LET row  == ag_rows[ag_k + 1]
           name == GroupName(row)
       IN  IF name \notin DOMAIN by_colleague
           THEN /\ by_colleague' = [n \in (DOMAIN by_colleague) \cup {name} |->
                                       IF n = name THEN <<row>> ELSE by_colleague[n]]
                /\ colleague_order' = Append(colleague_order, name)
           ELSE /\ by_colleague' = [by_colleague EXCEPT ![name] = Append(@, row)]
                /\ colleague_order' = colleague_order
    /\ ag_k' = ag_k + 1
    /\ UNCHANGED <<ag_rows, ag_pc, sheets>>

\* The loop over colleague_order: the sheet of the next group, with its row
\* listing and its summary block.
WriteSheet ==
    /\ ag_pc = "build" /\ ag_k = Len(ag_rows)
    /\ Len(sheets) < Len(colleague_order)
    /\ LET name    == colleague_order[Len(sheets) + 1]
           summary == build_summary_for_colleague(by_colleague[name])
       IN  sheets' = Append(sheets,
                        [name         |-> name,
                         title        |-> safe_title(name, {sheets[j].title : j \in 1..Len(sheets)}),
                         listing      |-> by_colleague[name],
                         date_headers |-> summary[1],
                         summary_rows |-> summary[2]])
    /\ UNCHANGED <<ag_rows, ag_pc, ag_k, colleague_order, by_colleague>>

\* wb.save(output_path)
SaveWorkbook ==
    /\ ag_pc = "build" /\ ag_k = Len(ag_rows)
    /\ Len(sheets) = Len(colleague_order)
    /\ ag_pc' = "saved"
    /\ UNCHANGED <<ag_rows, ag_k, colleague_order, by_colleague, sheets>>

\* ---------------------------------------------- extraction: the inputs

MaxChunks == 3

\* Chunks as html_to_chunks yields them: stripped and not empty.  A marker
\* chunk is an optional prefix, the marker in some letter case, and a tail.
MarkerForms ==
    { <<"P", "R", "E", "D", "A", "L">>,
      <<"P", "r", "e", "d", "a", "l">> }

MarkerChunks ==
    { m \o t : m \in MarkerForms, t \in { <<":">>, <<":", " ", "X", "x">> } }
    \cup { <<"ss">> \o <<"P", "r", "e", "d", "a", "l">> \o t :
             t \in { <<"X">>, <<":", " ", "X", "x">> } }
    \cup { MARKER \o <<":", "nbsp", ":">>, MARKER \o <<"X">> }

PlainChunks == { <<"Y", "y">>, <<"Y", "y", ":">>, <<"Y", " ", "y">> }

ChunkPool == MarkerChunks \cup PlainChunks

exVars == <<chunks, ex_pc, ex_result>>

runVars == <<entry, fetch_predal, delay, readable, headers, sheet, pc, rows, row_i, url_cache,
             output_rows, fetch_log, sleeps, written, message>>

aggVars == <<ag_rows, ag_pc, ag_k, colleague_order, by_colleague, sheets>>

callVars == <<fn_arg, fn_pc, fn_result, sm_given, sm_rows, sm_pc, sm_first, sm_second>>

guiVars == <<input_path, run_btn, workers, queue, handled, last_start>>

vars == <<exVars, runVars, aggVars, callVars, guiVars>>

\* No window is open.
GuiIdle ==
    /\ input_path = FALSE /\ run_btn = FALSE /\ workers = << >>
    /\ queue = << >> /\ handled = << >>
    /\ last_start = [outcome |-> "none", runs_before |-> 0]

\* No function is called on its own.
CallIdle ==
    /\ fn_arg = << >> /\ fn_pc = "idle" /\ fn_result = None
    /\ sm_given = << >> /\ sm_rows = << >> /\ sm_pc = "idle"
    /\ sm_first = None /\ sm_second = None

EmptyGroups == [n \in {} |-> << >>]

\* build_output at rest, for the specifications that do not run it.
AggIdle ==
    /\ ag_rows = << >> /\ ag_pc = "idle" /\ ag_k = 0
    /\ colleague_order = << >> /\ by_colleague = EmptyGroups /\ sheets = << >>

EmptyCache == [l \in {} |-> None]

\* The row loop at rest, for the specifications that do not run it.
RunIdle ==
    /\ entry = "none" /\ fetch_predal = FALSE /\ delay = 0
    /\ readable = FALSE /\ headers = FALSE /\ sheet = << >> /\ pc = "idle" /\ rows = << >> /\ row_i = 0
    /\ url_cache = EmptyCache /\ output_rows = << >> /\ fetch_log = << >>
    /\ sleeps = << >> /\ written = None
    /\ message = [processed |-> -1, missing |-> -1]

ExtractIdle == chunks = << >> /\ ex_pc = "idle" /\ ex_result = None

ExtractInit ==
    /\ chunks \in SeqsUpTo(ChunkPool, MaxChunks)
    /\ ex_pc = "call"
    /\ ex_result = None
    /\ RunIdle
    /\ AggIdle
    /\ CallIdle
    /\ GuiIdle

\* One call of extract_predal_from_chunks on the chosen chunks.
CallExtract ==
    /\ ex_pc = "call"
    /\ ex_result' = extract_predal_from_chunks(chunks)
    /\ ex_pc' = "done"
    /\ UNCHANGED <<chunks, runVars, aggVars, callVars, guiVars>>

SpecExtract == ExtractInit /\ [][CallExtract]_vars

\* A run of one entry point, before load_rows.
RunInit ==
    /\ entry \in {"app", "desktop", "table", "extract"}
    /\ fetch_predal \in (IF entry = "app" THEN BOOLEAN ELSE {TRUE})
    /\ delay \in {0, 1}
    /\ readable \in BOOLEAN
    /\ headers \in BOOLEAN
    /\ sheet \in SheetsOf(entry)
    /\ pc = "load" /\ rows = << >> /\ row_i = 0
    /\ url_cache = EmptyCache /\ output_rows = << >> /\ fetch_log = << >>
    /\ sleeps = << >> /\ written = None
    /\ message = [processed |-> -1, missing |-> -1]
    /\ ExtractIdle
    /\ AggIdle
    /\ CallIdle
    /\ GuiIdle

RunNext ==
    \/ Load /\ UNCHANGED <<exVars, aggVars, callVars, guiVars>>
    \/ AppRow /\ UNCHANGED <<exVars, aggVars, callVars, guiVars>>
    \/ DesktopRow /\ UNCHANGED <<exVars, aggVars, callVars, guiVars>>
    \/ TableRow /\ UNCHANGED <<exVars, aggVars, callVars, guiVars>>
    \/ ExtractRow /\ UNCHANGED <<exVars, aggVars, callVars, guiVars>>
    \/ AppFinish /\ UNCHANGED <<exVars, aggVars, callVars, guiVars>>
    \/ DesktopFinish /\ UNCHANGED <<exVars, aggVars, callVars, guiVars>>
    \/ TableFinish /\ UNCHANGED <<exVars, aggVars, callVars, guiVars>>
    \/ ExtractFinish /\ UNCHANGED <<exVars, aggVars, callVars, guiVars>>

SpecRun == RunInit /\ [][RunNext]_vars

\* A call of build_output with the output rows of a run.
AggInit ==
    /\ ag_rows \in SeqsUpTo(AggRowPool, MaxAggRows)
    /\ ag_pc = "build" /\ ag_k = 0
    /\ colleague_order = << >> /\ by_colleague = EmptyGroups /\ sheets = << >>
    /\ ExtractIdle
    /\ RunIdle
    /\ CallIdle
    /\ GuiIdle

AggNext ==
    \/ GroupRow /\ UNCHANGED <<exVars, runVars, callVars, guiVars>>
    \/ WriteSheet /\ UNCHANGED <<exVars, runVars, callVars, guiVars>>
    \/ SaveWorkbook /\ UNCHANGED <<exVars, runVars, callVars, guiVars>>

SpecAgg == AggInit /\ [][AggNext]_vars

\* ------------------------------------------------- parse_quantity alone

MaxQtyLen == 3

QtyAlphabet == {"1", "5", " ", ",", ".", "-", "a"}

\* "1 234,5", "10,5", "7", "abc", "1,234.5" and "7" between tabs.
QtyExamples ==
    { <<"1", " ", "2", "3", "4", ",", "5">>, <<"1", "0", ",", "5">>, <<"7">>,
      <<"a", "b", "c">>, <<"1", ",", "2", "3", "4", ".", "5">>, <<"tab", "7", "tab">> }

QtyTexts == SeqsUpTo(QtyAlphabet, MaxQtyLen) \cup QtyExamples

\* The rest of the model at rest, for the specifications of one function.
OthersIdle == ExtractIdle /\ RunIdle /\ AggIdle /\ GuiIdle

SummaryIdle ==
    /\ sm_given = << >> /\ sm_rows = << >> /\ sm_pc = "idle"
    /\ sm_first = None /\ sm_second = None

QuantityInit ==
    /\ fn_arg \in QtyTexts /\ fn_pc = "call" /\ fn_result = None
    /\ SummaryIdle /\ OthersIdle

CallParseQuantity ==
    /\ fn_pc = "call"
    /\ fn_result' = parse_quantity(fn_arg)
    /\ fn_pc' = "parse_quantity"
    /\ UNCHANGED <<fn_arg, sm_given, sm_rows, sm_pc, sm_first, sm_second,
                   exVars, runVars, aggVars, guiVars>>

SpecQuantity == QuantityInit /\ [][CallParseQuantity]_vars

\* --------------------------------------------- normalize_product alone

MaxProductLen == 3

ProductAlphabet == {"a", "A", " ", "tab"}

\* "paz  x-freeze" and " PAZ X-FREEZE ".
ProductExamples ==
    { <<"p", "a", "z", " ", " ", "x", "-", "f", "r", "e", "e", "z", "e">>,
      <<" ", "P", "A", "Z", " ", "X", "-", "F", "R", "E", "E", "Z", "E", " ">> }

ProductTexts ==
    SeqsUpTo(ProductAlphabet, MaxProductLen) \cup ProductExamples \cup {PRODUCT_ORDER[1]}

ProductInit ==
    /\ fn_arg \in ProductTexts /\ fn_pc = "call" /\ fn_result = None
    /\ SummaryIdle /\ OthersIdle

CallNormalizeProduct ==
    /\ fn_pc = "call"
    /\ fn_result' = normalize_product(fn_arg)
    /\ fn_pc' = "normalize_product"
    /\ UNCHANGED <<fn_arg, sm_given, sm_rows, sm_pc, sm_first, sm_second,
                   exVars, runVars, aggVars, guiVars>>

SpecProduct == ProductInit /\ [][CallNormalizeProduct]_vars

\* ------------------------------------- build_summary_for_colleague twice

MaxSummaryRows == 2

RowsAfterSummaryConsumed(rs) == << >>

\* The list passed to build_summary_for_colleague, after the call: the
\* function only iterates over it.
RowsAfterSummary(rs) == rs

SummaryInit ==
    /\ sm_given \in SeqsUpTo(AggRowPool, MaxSummaryRows)
    /\ sm_rows = sm_given /\ sm_pc = "first"
    /\ sm_first = None /\ sm_second = None
    /\ fn_arg = << >> /\ fn_pc = "idle" /\ fn_result = None
    /\ OthersIdle

FirstSummary ==
    /\ sm_pc = "first"
    /\ sm_first' = build_summary_for_colleague(sm_rows)
    /\ sm_rows' = RowsAfterSummary(sm_rows)
    /\ sm_pc' = "second"
    /\ UNCHANGED <<sm_given, sm_second, fn_arg, fn_pc, fn_result, exVars, runVars, aggVars, guiVars>>

SecondSummary ==
    /\ sm_pc = "second"
    /\ sm_second' = build_summary_for_colleague(sm_rows)
    /\ sm_rows' = RowsAfterSummary(sm_rows)
    /\ sm_pc' = "done"
    /\ UNCHANGED <<sm_given, sm_first, fn_arg, fn_pc, fn_result, exVars, runVars, aggVars, guiVars>>

SummaryNext == FirstSummary \/ SecondSummary

SpecSummary == SummaryInit /\ [][SummaryNext]_vars

\* -------------------------------------------------- clean_predal alone

MaxCleanParts == 3

\* The parts an extracted value is put together from: the phrase in small
\* and in capital letters, a name, a space and a colon.
CleanParts == {BOILERPLATE, Upper(BOILERPLATE), <<"X", "x">>, <<" ">>, <<":">>}

RECURSIVE Joined(_)
Joined(parts) == IF parts = << >> THEN << >> ELSE Head(parts) \o Joined(Tail(parts))

CleanTexts == {Joined(parts) : parts \in SeqsUpTo(CleanParts, MaxCleanParts)}

CleanInit ==
    /\ fn_arg \in CleanTexts /\ fn_pc = "call" /\ fn_result = None
    /\ SummaryIdle /\ OthersIdle

CallCleanPredal ==
    /\ fn_pc = "call"
    /\ fn_result' = clean_predal(fn_arg)
    /\ fn_pc' = "clean_predal"
    /\ UNCHANGED <<fn_arg, sm_given, sm_rows, sm_pc, sm_first, sm_second,
                   exVars, runVars, aggVars, guiVars>>

SpecClean == CleanInit /\ [][CallCleanPredal]_vars

\* ------------------------------------------- the desktop window's runs

MaxRuns == 2

MaxTotal == 2

ButtonLeftEnabled == TRUE

\* self.run_btn.setEnabled(False) in start
ButtonAfterStart == FALSE

NoRowsReturnsLate == FALSE

\* The return after error.emit("Няма редове за този клиент.")
NoRowsReturns == TRUE

\* The signals of Worker.
Progress(current, total) == [kind |-> "progress", current |-> current, total |-> total]

Done == [kind |-> "done", current |-> 0, total |-> 0]

Error == [kind |-> "error", current |-> 0, total |-> 0]

\* The worker w emits the signals sigs, in order, and is then at position
\* next_pc with total rows and i of them processed; the connections to the
\* window are queued, the worker being in a thread of its own.
Emit(w, sigs, next_pc, total, i) ==
    /\ workers' = [workers EXCEPT ![w] = [pc |-> next_pc, total |-> total, i |-> i,
                                          emitted |-> workers[w].emitted \o sigs]]
    /\ queue' = queue \o [k \in 1..Len(sigs) |-> <<w, sigs[k]>>]

GuiInit ==
    /\ input_path = FALSE /\ run_btn = TRUE /\ workers = << >>
    /\ queue = << >> /\ handled = << >>
    /\ last_start = [outcome |-> "none", runs_before |-> 0]
    /\ ExtractIdle /\ RunIdle /\ AggIdle /\ CallIdle

\* select_file: the dialog returns a path or is cancelled.
SelectFile ==
    /\ \E chosen \in BOOLEAN : input_path' = (input_path \/ chosen)
    /\ UNCHANGED <<run_btn, workers, queue, handled, last_start>>

\* start, the slot of the run button's clicked signal: a disabled button
\* does not emit it.
Start ==
    /\ run_btn
    /\ Len(workers) < MaxRuns
    /\ \E out_path \in BOOLEAN :
         IF ~input_path
         THEN /\ last_start' = [outcome |-> "no_file", runs_before |-> Len(workers)]
              /\ UNCHANGED <<run_btn, workers>>
         ELSE IF ~out_path
         THEN /\ last_start' = [outcome |-> "cancelled", runs_before |-> Len(workers)]
              /\ UNCHANGED <<run_btn, workers>>
         ELSE /\ last_start' = [outcome |-> "started", runs_before |-> Len(workers)]
              /\ run_btn' = ButtonAfterStart
              /\ workers' = Append(workers, [pc |-> "load", total |-> 0, i |-> 0,
                                             emitted |-> << >>])
    /\ UNCHANGED <<input_path, queue, handled>>

\* Worker.run up to the loop: load_rows raises, yields no rows, or yields
\* total rows.
WorkerLoad(w) ==
    /\ workers[w].pc = "load"
    /\ \E raises \in BOOLEAN, total \in 0..MaxTotal :
         IF raises THEN Emit(w, <<Error>>, "finished", 0, 0)
         ELSE IF total = 0
         THEN IF NoRowsReturns THEN Emit(w, <<Error>>, "finished", 0, 0)
              ELSE Emit(w, <<Error>>, "loop", 0, 0)
         ELSE Emit(w, << >>, "loop", total, 0)
    /\ UNCHANGED <<input_path, run_btn, handled, last_start>>

\* Worker.run: one iteration of the loop, which ends with progress.emit.
WorkerRow(w) ==
    /\ workers[w].pc = "loop"
    /\ workers[w].i < workers[w].total
    /\ Emit(w, <<Progress(workers[w].i + 1, workers[w].total)>>, "loop",
            workers[w].total, workers[w].i + 1)
    /\ UNCHANGED <<input_path, run_btn, handled, last_start>>

\* Worker.run after the loop: build_output raises, or done is emitted.
WorkerFinish(w) ==
    /\ workers[w].pc = "loop"
    /\ workers[w].i = workers[w].total
    /\ \E saved \in BOOLEAN :
         Emit(w, <<IF saved THEN Done ELSE Error>>, "finished",
              workers[w].total, workers[w].i)
    /\ UNCHANGED <<input_path, run_btn, handled, last_start>>

\* The main thread handles the next queued signal: on_progress, on_done or
\* on_error.
HandleSignal ==
    /\ queue # << >>
    /\ run_btn' = IF Head(queue)[2].kind \in {"done", "error"} THEN TRUE ELSE run_btn
    /\ handled' = Append(handled, Head(queue))
    /\ queue' = Tail(queue)
    /\ UNCHANGED <<input_path, workers, last_start>>

GuiNext ==
    \/ SelectFile /\ UNCHANGED <<exVars, runVars, aggVars, callVars>>
    \/ Start /\ UNCHANGED <<exVars, runVars, aggVars, callVars>>
    \/ \E w \in 1..Len(workers) : WorkerLoad(w) /\ UNCHANGED <<exVars, runVars, aggVars, callVars>>
    \/ \E w \in 1..Len(workers) : WorkerRow(w) /\ UNCHANGED <<exVars, runVars, aggVars, callVars>>
    \/ \E w \in 1..Len(workers) : WorkerFinish(w) /\ UNCHANGED <<exVars, runVars, aggVars, callVars>>
    \/ HandleSignal /\ UNCHANGED <<exVars, runVars, aggVars, callVars>>

SpecGui == GuiInit /\ [][GuiNext]_vars

\* ------------------------------------------------ the row loop: claims

\* The link of the loaded row k.
RowLink(k) == IF entry = "extract" THEN rows[k][2] ELSE rows[k][6]

\* Whether the run resolves links at all (app.py has a check box for it).
Resolving == entry # "app" \/ fetch_predal

\* The responsible value of output row k as it is written out.
Responsible(k) == OrEmpty(output_rows[k][2])

\* C1: fetch_html is called at most once per link in a run; a fetch for a
\* link happens only at the first row that carries it, and every processed
\* row's link is in url_cache afterwards, whether its fetch returned or raised.
C1_FetchOncePerLink ==
    /\ \A a, b \in 1..Len(fetch_log) :
          fetch_log[a][2] = fetch_log[b][2] => a = b
    /\ \A a \in 1..Len(fetch_log) :
          \A k \in 1..(fetch_log[a][1] - 1) : RowLink(k) # fetch_log[a][2]
    /\ \A k \in 1..row_i :
          (Resolving /\ Truthy(RowLink(k))) => RowLink(k) \in DOMAIN url_cache
    /\ DOMAIN url_cache = {fetch_log[a][2] : a \in 1..Len(fetch_log)}

\* Two rows share a link, the fetch of the first raised, and the run ended
\* with that single fetch.
C1_Witness ==
    /\ pc = "done"
    /\ Len(fetch_log) = 1 /\ fetch_log[1][3] = "raise"
    /\ \E j, k \in 1..Len(rows) : j < k /\ RowLink(j) = RowLink(k) /\ Truthy(RowLink(j))

\* C2: output rows with the same link carry the same responsible value, and
\* the value a row was given is still the one url_cache holds for its link:
\* an entry is neither replaced nor removed once written.
C2_SameLinkSameValue ==
    /\ \A j, k \in 1..Len(output_rows) :
          RowLink(j) = RowLink(k) => Responsible(j) = Responsible(k)
    /\ \A k \in 1..Len(output_rows) :
          (Resolving /\ Truthy(RowLink(k))) =>
              /\ RowLink(k) \in DOMAIN url_cache
              /\ Responsible(k) = OrEmpty(url_cache[RowLink(k)])

\* A fetched name is reused by a later row of the same link, after another
\* link has been resolved in between.
C2_Witness ==
    /\ pc = "done"
    /\ Len(output_rows) = 3
    /\ RowLink(1) = RowLink(3) /\ RowLink(2) # RowLink(1) /\ Truthy(RowLink(2))
    /\ Responsible(1) = <<"X", "x">> /\ Responsible(3) = <<"X", "x">>
    /\ Len(fetch_log) = 2

\* C3: a fetch that raises, or that returns a content type without
\* text/html, leaves the empty value in the row and in url_cache; the
\* exception does not leave the loop, the loop can always take its next step
\* and a finished run has processed every row.
C3_FetchFailureAbsent ==
    /\ pc # "crashed"
    /\ \A a \in 1..Len(fetch_log) :
          fetch_log[a][3] \in {"raise", "nonhtml"} =>
              /\ fetch_log[a][2] \in DOMAIN url_cache
              /\ OrEmpty(url_cache[fetch_log[a][2]]) = << >>
              /\ fetch_log[a][1] <= Len(output_rows)
              /\ Responsible(fetch_log[a][1]) = << >>
    /\ pc = "loop" => ENABLED RunNext
    /\ pc = "done" => Len(output_rows) = Len(rows)

\* The first fetch raised, the second returned a PDF, and the third row was
\* still processed.
C3_Witness ==
    /\ pc = "done"
    /\ Len(rows) = 3 /\ Len(output_rows) = 3
    /\ Len(fetch_log) = 2
    /\ fetch_log[1][3] = "raise" /\ fetch_log[2][3] = "nonhtml"
    /\ fetch_log[2][1] = 2

\* C4: the loop appends one output row per loaded row, in input order, with
\* number, date, product and quantity (extract_predal.py: number and link)
\* copied from the input row; a row without a link has the empty
\* responsible value, and the finished run writes exactly these rows.
C4_OneOutputRowPerInput ==
    /\ pc \in {"loop", "done"} => (Len(output_rows) = row_i /\ row_i <= Len(rows))
    /\ \A k \in 1..Len(output_rows) :
          /\ output_rows[k][1] = rows[k][1]
          /\ entry = "extract" => output_rows[k][3] = rows[k][2]
          /\ entry # "extract" =>
                /\ output_rows[k][3] = rows[k][3]
                /\ output_rows[k][4] = rows[k][4]
                /\ output_rows[k][5] = rows[k][5]
          /\ ~Truthy(RowLink(k)) => Responsible(k) = << >>
    /\ pc = "done" => (Len(output_rows) = Len(rows) /\ written = output_rows)

\* A failed fetch, a cache hit and a row without a link, all three written.
C4_Witness ==
    /\ pc = "done"
    /\ Len(written) = 3
    /\ fetch_log = << <<1, "u1", "raise">> >>
    /\ RowLink(2) = "u1" /\ RowLink(3) = NoLink
    /\ \A k \in 1..3 : written[k][5] = rows[k][5]

\* ---------------------------------------------- extraction: the claims

\* The indexes of the chunks whose upper-cased form contains the marker.
MarkerIndexes(cs) == {i \in 1..Len(cs) : Contains(Upper(cs[i]), MARKER)}

Least(S) == CHOOSE i \in S : \A j \in S : i <= j

\* The 0-based positions of the original-case chunk at which the marker
\* stands, letter case ignored.
MarkerPositions(c) ==
    {k \in 0..(Len(c) - Len(MARKER)) : Upper(SubSeq(c, k + 1, k + Len(MARKER))) = MARKER}

\* What follows the marker's end in the original-case chunk, with leading
\* spaces, colons and no-break spaces removed.
TextAfterMarker(c) ==
    LStrip(SliceFrom(c, Least(MarkerPositions(c)) + Len(MARKER)), MarkerPunct)

\* C5: when the first marker chunk has a non-empty text after the marker's
\* end (leading spaces, colons, no-break spaces removed), that text, in its
\* original letter case, is the result.
C5_SameChunkValue ==
    (ex_pc = "done" /\ MarkerIndexes(chunks) # {}) =>
        LET c == chunks[Least(MarkerIndexes(chunks))]
        IN  (MarkerPositions(c) # {} /\ TextAfterMarker(c) # << >>) =>
                ex_result = TextAfterMarker(c)

\* C5 on the chunks in which no character changes length when upper-cased.
C5_Example ==
    (ex_pc = "done"
     /\ chunks = << <<"P", "r", "e", "d", "a", "l", ":", " ", "X", "x">> >>)
        => ex_result = <<"X", "x">>

\* C6: when the first marker chunk has nothing after the marker, the next
\* chunk, trimmed, is the result if it exists and does not end with a
\* colon; otherwise this marker chunk gives no value and the result is that
\* of the chunks after it.
C6_NextChunkFallback ==
    (ex_pc = "done" /\ MarkerIndexes(chunks) # {}) =>
        LET f == Least(MarkerIndexes(chunks))
            c == chunks[f]
        IN  (MarkerPositions(c) # {} /\ TextAfterMarker(c) = << >>) =>
                IF f + 1 <= Len(chunks) /\ ~EndsWith(chunks[f + 1], ":")
                THEN ex_result = Strip(chunks[f + 1])
                ELSE /\ ex_result = extract_predal_from_chunks(SliceFrom(chunks, f))
                     /\ (Len(chunks) <= f + 1 => ex_result = None)

C6_Witness ==
    /\ ex_pc = "done"
    /\ chunks = << <<"P", "R", "E", "D", "A", "L", ":">>, <<"Y", " ", "y">> >>
    /\ ex_result = <<"Y", " ", "y">>

\* C7: the result is the value of the lowest-index iteration that yields
\* one, later chunks have no influence on it, and the result is absent
\* exactly when no iteration yields a value, in particular when no chunk
\* holds the marker.
C7_ScanOrder ==
    ex_pc = "done" =>
        LET yielding == {i \in 1..Len(chunks) : Iteration(chunks, i) # None}
        IN  /\ (yielding = {}) <=> (ex_result = None)
            /\ MarkerIndexes(chunks) = {} => ex_result = None
            /\ yielding # {} =>
                  /\ ex_result = Iteration(chunks, Least(yielding))
                  /\ \A j \in (Least(yielding) + 2)..Len(chunks) : \A c \in ChunkPool :
                        extract_predal_from_chunks([chunks EXCEPT ![j] = c]) = ex_result

\* A marker chunk that yields nothing (its next chunk ends with a colon) is
\* skipped and a later marker chunk decides.
C7_Witness ==
    /\ ex_pc = "done"
    /\ chunks = << <<"P", "R", "E", "D", "A", "L", ":">>,
                   <<"Y", "y", ":">>,
                   <<"P", "r", "e", "d", "a", "l", ":", " ", "X", "x">> >>
    /\ ex_result = <<"X", "x">>

\* ------------------------------------------------- aggregation: claims

\* A responsible value that is empty or white space only.
IsBlank(text) == \A k \in 1..Len(text) : text[k] \in Whitespace

\* The group a row belongs to: its trimmed name, or the sentinel.
GroupOf(row) == IF IsBlank(row[2]) THEN SENTINEL ELSE Strip(row[2])

\* The rows the grouping loop has taken so far.
Grouped == SubSeq(ag_rows, 1, ag_k)

\* The index of the first grouped row of group n.
FirstRowOf(n) == Least({k \in 1..ag_k : GroupOf(ag_rows[k]) = n})

RECURSIVE RowsOfGroup(_, _)
RowsOfGroup(rs, n) ==
    IF rs = << >> THEN << >>
    ELSE (IF GroupOf(Head(rs)) = n THEN <<Head(rs)>> ELSE << >>) \o RowsOfGroup(Tail(rs), n)

\* C8: the groups are the trimmed names of the rows, the sentinel standing
\* for the blank ones; they are listed in the order of their first row, each
\* holds exactly its rows in input order, and the sheets follow that order.
C8_GroupingOrder ==
    /\ DOMAIN by_colleague = {GroupOf(ag_rows[k]) : k \in 1..ag_k}
    /\ {colleague_order[j] : j \in 1..Len(colleague_order)} = DOMAIN by_colleague
    /\ \A a, b \in 1..Len(colleague_order) :
          a < b => FirstRowOf(colleague_order[a]) < FirstRowOf(colleague_order[b])
    /\ \A n \in DOMAIN by_colleague : by_colleague[n] = RowsOfGroup(Grouped, n)
    /\ \A j \in 1..Len(sheets) :
          /\ sheets[j].name = colleague_order[j]
          /\ sheets[j].listing = RowsOfGroup(ag_rows, colleague_order[j])
    /\ ag_pc = "saved" => Len(sheets) = Len(colleague_order)

\* A named group first, then the sentinel group holding the row with the
\* empty name and the row with the white-space name.
C8_Witness ==
    /\ ag_pc = "saved"
    /\ colleague_order = <<NameXx, SENTINEL>>
    /\ Len(by_colleague[SENTINEL]) = 2
    /\ by_colleague[SENTINEL][1][2] = <<"tab">>
    /\ by_colleague[SENTINEL][2][2] = << >>
    /\ ag_rows[1][2] = NameXx \o <<"tab">>

\* The sum of f[k] over the indexes k of S.
RECURSIVE SumOver(_, _)
SumOver(S, f) ==
    IF S = {} THEN 0
    ELSE LET k == CHOOSE x \in S : TRUE IN f[k] + SumOver(S \ {k}, f)

RECURSIVE NormalizedProducts(_)
NormalizedProducts(listing) ==
    IF listing = << >> THEN << >>
    ELSE <<normalize_product(Head(listing)[4])>> \o NormalizedProducts(Tail(listing))

RECURSIVE Amounts(_)
Amounts(listing) ==
    IF listing = << >> THEN << >>
    ELSE <<parse_quantity(Head(listing)[5])>> \o Amounts(Tail(listing))

\* The catalog keys, each computed once.
CatalogKeys == NormalizedProducts([k \in 1..Len(PRODUCT_ORDER) |-> <<0, 0, 0, PRODUCT_ORDER[k]>>])

\* The row of summary_rows that carries catalog product p.
RowOfProduct(summary_rows, p) ==
    CHOOSE r \in 1..Len(summary_rows) : summary_rows[r][1] = PRODUCT_ORDER[p]

\* C9: in every sheet, the cell of a catalog product and a date column is
\* the sum of the parsed quantities of the group's rows with that product
\* (after normalisation) and that date; other rows add nothing, and every
\* row of the group, usable or not, is in the sheet's row listing.
C9_SummaryCells ==
    \A j \in 1..Len(sheets) :
        LET sh == sheets[j]
            prods == NormalizedProducts(sh.listing)
            amts == Amounts(sh.listing)
            counting(p, date_val) ==
                {k \in 1..Len(sh.listing) :
                    /\ prods[k] = CatalogKeys[p]
                    /\ sh.listing[k][3] = date_val
                    /\ amts[k] # NoAmount}
        IN  /\ sh.listing = by_colleague[sh.name]
            /\ \A p \in 1..Len(PRODUCT_ORDER) :
                  /\ \E r \in 1..Len(sh.summary_rows) : sh.summary_rows[r][1] = PRODUCT_ORDER[p]
                  /\ \A d \in 1..Len(sh.date_headers) :
                        sh.summary_rows[RowOfProduct(sh.summary_rows, p)][2][d][2]
                          = SumOver(counting(p, sh.date_headers[d]),
                                    [k \in 1..Len(sh.listing) |->
                                        IF amts[k] = NoAmount THEN 0 ELSE amts[k][1]])

\* Two "PAZ X-Freeze" rows of 3 and 2 on 2024-01-01 and a row with an
\* unparsable quantity: the cell is 5, and the listing has all three rows.
C9_Witness ==
    /\ ag_pc = "saved"
    /\ Len(sheets) = 1
    /\ Len(sheets[1].listing) = 3
    /\ \E k \in 1..3 : sheets[1].listing[k][5] = <<"a", "b", "c">>
    /\ sheets[1].date_headers = <<DateOne>>
    /\ sheets[1].summary_rows[1] = <<XFreeze, << <<"int", 5 * Scale>> >> >>

\* The labels of the summary rows, in order.
Labels(sh) == [r \in 1..Len(sh.summary_rows) |-> sh.summary_rows[r][1]]

RECURSIVE WithoutBlank(_)
WithoutBlank(ls) ==
    IF ls = << >> THEN << >>
    ELSE (IF Head(ls) = << >> THEN << >> ELSE <<Head(ls)>>) \o WithoutBlank(Tail(ls))

\* C10: in every summary the rows with a label are the catalog in catalog
\* order; a row with the empty label stands right after each boundary
\* product's row and nowhere else, one for each of the brands.
C10_SubtotalPlacement ==
    \A j \in 1..Len(sheets) :
        LET ls == Labels(sheets[j])
            blanks == {r \in 1..Len(ls) : ls[r] = << >>}
        IN  /\ WithoutBlank(ls) = PRODUCT_ORDER
            /\ \A r \in blanks : r > 1 /\ IsBoundary(ls[r - 1])
            /\ \A r \in 1..Len(ls) :
                  (ls[r] # << >> /\ IsBoundary(ls[r])) => (r < Len(ls) /\ ls[r + 1] = << >>)
            /\ Cardinality(blanks) = Len(BoundaryBrands)
            /\ {BRAND_BOUNDARIES(ls[r - 1]) : r \in blanks}
                 = {BoundaryBrands[b] : b \in 1..Len(BoundaryBrands)}

\* A written sheet: 40 product rows and 4 brand rows, the first brand row
\* at position 11, after "PAZ Berry frost +".
C10_Witness ==
    /\ ag_pc = "saved"
    /\ Len(sheets) = 2
    /\ Len(sheets[2].summary_rows) = 44
    /\ sheets[2].summary_rows[10][1] = PRODUCT_ORDER[10]
    /\ sheets[2].summary_rows[11][1] = << >>
    /\ sheets[2].summary_rows[11][2][1] = <<"int", 2 * Scale>>

\* The amount in column d of row r of a sheet's summary.
Cell(sh, r, d) == sh.summary_rows[r][2][d][2]

\* The row of a sheet's summary with the given product label.
RowLabelled(sh, label) == CHOOSE r \in 1..Len(sh.summary_rows) : sh.summary_rows[r][1] = label

\* C11: every brand row holds, in every date column, the sum of the cells
\* that the rows of the products of its boundary product's brand hold in
\* that column.
C11_BrandSubtotal ==
    \A j \in 1..Len(sheets) :
        LET sh == sheets[j]
        IN  \A r \in 2..Len(sh.summary_rows) :
                sh.summary_rows[r][1] = << >> =>
                    LET products == BRAND_PRODUCTS(BRAND_BOUNDARIES(sh.summary_rows[r - 1][1]))
                    IN  \A d \in 1..Len(sh.date_headers) :
                            Cell(sh, r, d)
                              = SumOver(1..Len(products),
                                        [k \in 1..Len(products) |->
                                            Cell(sh, RowLabelled(sh, products[k]), d)])

\* Only "PAZ X-Freeze" rows, 3 and 2 on 2024-01-01: the PAZ brand row holds
\* 5 on that date, and the rows of the other PAZ products hold 0.
C11_Witness ==
    /\ ag_pc = "saved"
    /\ Len(sheets) = 1
    /\ Len(sheets[1].listing) = 2
    /\ sheets[1].date_headers = <<DateOne>>
    /\ sheets[1].summary_rows[1] = <<XFreeze, << <<"int", 5 * Scale>> >> >>
    /\ sheets[1].summary_rows[10] = <<PRODUCT_ORDER[10], << <<"int", 0>> >> >>
    /\ sheets[1].summary_rows[11] = << << >>, << <<"int", 5 * Scale>> >> >>

\* ------------------------------------------------- parse_quantity: claims

\* text without its characters c.
Without(text, c) == SelectSeq(text, LAMBDA x : x # c)

\* text with "." in the place of each ",".
CommaAsPoint(text) == [k \in 1..Len(text) |-> IF text[k] = "," THEN "." ELSE text[k]]

Has(text, c) == \E k \in 1..Len(text) : text[k] = c

\* The reading of a quantity text: trimmed and without spaces; with both
\* "," and "." the commas are dropped, with "," alone it is the decimal
\* point; what is then no plain number has no numeric value.
QuantityReading(text) ==
    LET bare == Without(Strip(text), " ")
    IN  IF Has(bare, ",") /\ Has(bare, ".") THEN ParseFloat(Without(bare, ","))
        ELSE IF Has(bare, ",") THEN ParseFloat(CommaAsPoint(bare))
        ELSE ParseFloat(bare)

\* C12: parse_quantity returns the reading of its text, and never an error:
\* "1 234,5" is 1234.5, "10,5" is 10.5, "7" is 7, "abc" and the empty text
\* have no numeric value.
C12_ParseQuantity ==
    fn_pc = "parse_quantity" =>
        /\ fn_result = QuantityReading(fn_arg)
        /\ fn_arg = <<"1", " ", "2", "3", "4", ",", "5">> => fn_result = <<1234 * Scale + 500>>
        /\ fn_arg = <<"1", "0", ",", "5">> => fn_result = <<10 * Scale + 500>>
        /\ fn_arg = <<"7">> => fn_result = <<7 * Scale>> /\ format_num(fn_result[1])[1] = "int"
        /\ fn_arg = <<"a", "b", "c">> => fn_result = NoAmount
        /\ fn_arg = << >> => fn_result = NoAmount

\* parse_quantity("1 234,5") has returned 1234.5.
C12_Witness ==
    /\ fn_pc = "parse_quantity"
    /\ fn_arg = <<"1", " ", "2", "3", "4", ",", "5">>
    /\ fn_result = <<1234 * Scale + 500>>

\* --------------------------------------------- normalize_product: claims

\* A text with its letters in small form and each white-space character
\* written as a space.
RECURSIVE Folded(_)
Folded(text) ==
    IF text = << >> THEN << >>
    ELSE (IF Head(text) \in Whitespace THEN <<" ">>
          ELSE IF \E k \in 1..Len(CapitalLetters) : CapitalLetters[k] = Head(text)
          THEN <<SmallLetters[CHOOSE k \in 1..Len(CapitalLetters) : CapitalLetters[k] = Head(text)]>>
          ELSE <<Head(text)>>)
         \o Folded(Tail(text))

\* A text of spaces and other characters with each run of spaces made one.
RECURSIVE OneSpacePerRun(_)
OneSpacePerRun(text) ==
    IF Len(text) < 2 THEN text
    ELSE IF text[1] = " " /\ text[2] = " " THEN OneSpacePerRun(Tail(text))
    ELSE <<Head(text)>> \o OneSpacePerRun(Tail(text))

\* Two texts with the same shape differ only in letter case, surrounding
\* white space and the length of the internal white-space runs.
Shape(text) == OneSpacePerRun(RStrip(LStrip(Folded(text), {" "}), {" "}))

\* C13: product strings that differ only in letter case, surrounding white
\* space or the length of internal white-space runs have the same key, and
\* a string of the shape of a catalog name has the catalog name's key.
C13_NormalizationKey ==
    fn_pc = "normalize_product" =>
        /\ \A other \in ProductTexts :
              Shape(other) = Shape(fn_arg) => normalize_product(other) = fn_result
        /\ \A p \in 1..Len(PRODUCT_ORDER) :
              Shape(PRODUCT_ORDER[p]) = Shape(fn_arg)
                 => ProductMapGet(fn_result) = PRODUCT_ORDER[p]

\* The same statement for the strings whose only white space is U+0020.
C13_SpacesOnly ==
    (fn_pc = "normalize_product" /\ ~Has(fn_arg, "tab")) =>
        /\ \A other \in ProductTexts :
              (~Has(other, "tab") /\ Shape(other) = Shape(fn_arg))
                 => normalize_product(other) = fn_result
        /\ \A p \in 1..Len(PRODUCT_ORDER) :
              Shape(PRODUCT_ORDER[p]) = Shape(fn_arg)
                 => (InProductMap(fn_result) /\ ProductMapGet(fn_result) = PRODUCT_ORDER[p])

\* ------------------------------------ build_summary_for_colleague twice

C15_FinalCounts ==
    pc = "done" =>
        /\ message.processed = Len(rows)
        /\ message.missing = Missing(output_rows)

\* C16: time.sleep runs only at rows that performed a fetch: not at a
\* cache hit, and not at a row that fetched nothing.
C16_DelayOnlyAfterFetch ==
    \A s \in 1..Len(sleeps) :
        \E f \in 1..Len(fetch_log) : fetch_log[f][1] = sleeps[s]

\* C20: when the workbook cannot be read or lacks the required columns the
\* run ends at load time: no row is processed, nothing is fetched and no
\* output is written.
C20_LoadErrorFatal ==
    (~readable \/ ~headers) =>
        /\ pc \in {"load", "failed"}
        /\ row_i = 0 /\ output_rows = << >>
        /\ fetch_log = << >>
        /\ written = None

\* The same statement for the unreadable workbook alone.
C20_Unreadable ==
    ~readable =>
        /\ pc \in {"load", "failed"}
        /\ row_i = 0 /\ output_rows = << >>
        /\ fetch_log = << >>
        /\ written = None

\* --------------------------------------------------- clean_predal: claims

\* C17: the value clean_predal returns contains the phrase
\* "(име, фамилия, подпис):" in no letter case, and neither begins nor ends
\* with a space, a colon or a no-break space.
C17_NoBoilerplateLeft ==
    fn_pc = "clean_predal" =>
        /\ ~Contains(Lower(fn_result), BOILERPLATE)
        /\ fn_result # << >> =>
              (Head(fn_result) \notin MarkerPunct /\ fn_result[Len(fn_result)] \notin MarkerPunct)

\* The same statement for the values that hold the phrase at most once.
C17_OneOccurrence ==
    (/\ fn_pc = "clean_predal"
     /\ LET first == Find(Lower(fn_arg), BOILERPLATE)
        IN  first = -1
            \/ ~Contains(SliceFrom(Lower(fn_arg), first + Len(BOILERPLATE)), BOILERPLATE))
    => ~Contains(Lower(fn_result), BOILERPLATE)

\* ------------------------------------------- aggregation: more claims

\* The dates of the rows of a listing, the empty ones left out.
DatesOf(listing) == {listing[k][3] : k \in 1..Len(listing)} \ {<< >>}

\* a comes before b in the order of Python strings.
RECURSIVE Before(_, _)
Before(a, b) ==
    IF b = << >> THEN FALSE
    ELSE IF a = << >> THEN TRUE
    ELSE IF a[1] < b[1] THEN TRUE
    ELSE IF a[1] > b[1] THEN FALSE
    ELSE Before(Tail(a), Tail(b))

\* C18: the date columns of a sheet are the non-empty dates of the rows of
\* its group, each once, in ascending order; a group without a dated row
\* has the one placeholder column.
C18_DateColumns ==
    \A j \in 1..Len(sheets) :
        LET sh == sheets[j]
            hs == sh.date_headers
        IN  IF DatesOf(sh.listing) = {}
            THEN hs = <<PLACEHOLDER>>
            ELSE /\ {hs[d] : d \in 1..Len(hs)} = DatesOf(sh.listing)
                 /\ \A a, b \in 1..Len(hs) : a < b => Before(hs[a], hs[b])

\* A group of two rows that count for no cell, the later date first: the
\* columns are 2024-01-01 and 2024-01-02.
C18_Witness ==
    /\ ag_pc = "saved"
    /\ Len(sheets) = 1
    /\ Len(sheets[1].listing) = 2
    /\ sheets[1].listing[1][1] = "n7" /\ sheets[1].listing[1][3] = DateTwo
    /\ sheets[1].listing[2][1] = "n8" /\ sheets[1].listing[2][3] = DateOne
    /\ sheets[1].date_headers = <<DateOne, DateTwo>>

\* A group whose only row has no date: the placeholder column.
C18_WitnessPlaceholder ==
    /\ ag_pc = "saved"
    /\ Len(sheets) = 1
    /\ sheets[1].listing[1][3] = << >>
    /\ sheets[1].date_headers = <<PLACEHOLDER>>

\* The products of a brand, as a set.
GroupSet(brand) == {BRAND_PRODUCTS(brand)[k] : k \in 1..Len(BRAND_PRODUCTS(brand))}

\* The brand groups are disjoint, cover the catalog and are ranges of it;
\* each boundary product is a catalog product and the last of the group it
\* names, and each brand has one boundary product.
CatalogConsistent ==
    /\ \A a, b \in 1..Len(PRODUCT_ORDER) : PRODUCT_ORDER[a] = PRODUCT_ORDER[b] => a = b
    /\ \A a, b \in Brands : a # b => GroupSet(a) \cap GroupSet(b) = {}
    /\ UNION {GroupSet(b) : b \in Brands} = {PRODUCT_ORDER[k] : k \in 1..Len(PRODUCT_ORDER)}
    /\ \A b \in Brands :
          \E lo, hi \in 1..Len(PRODUCT_ORDER) :
              lo <= hi /\ BRAND_PRODUCTS(b) = SubSeq(PRODUCT_ORDER, lo, hi)
    /\ \A k \in 1..Len(BoundaryProducts) :
          /\ \E p \in 1..Len(PRODUCT_ORDER) : PRODUCT_ORDER[p] = BoundaryProducts[k]
          /\ BoundaryBrands[k] \in Brands
          /\ LET group == BRAND_PRODUCTS(BoundaryBrands[k])
             IN  group[Len(group)] = BoundaryProducts[k]
    /\ \A b \in Brands :
          Cardinality({k \in 1..Len(BoundaryProducts) : BoundaryBrands[k] = b}) = 1

\* The last row with the empty label before row r, 0 when there is none.
PreviousBrandRow(sh, r) ==
    LET earlier == {q \in 1..(r - 1) : sh.summary_rows[q][1] = << >>}
    IN  IF earlier = {} THEN 0 ELSE CHOOSE q \in earlier : \A x \in earlier : x <= q

\* C19: the catalog configuration is consistent, and every brand row holds
\* the sum of the product rows between the brand row before it (or the top
\* of the table) and itself.
C19_CatalogConsistency ==
    /\ CatalogConsistent
    /\ \A j \in 1..Len(sheets) :
          LET sh == sheets[j]
          IN  \A r \in 1..Len(sh.summary_rows) :
                  sh.summary_rows[r][1] = << >> =>
                      LET between == (PreviousBrandRow(sh, r) + 1)..(r - 1)
                      IN  \A d \in 1..Len(sh.date_headers) :
                              Cell(sh, r, d)
                                = SumOver(between,
                                          [k \in between |-> Cell(sh, k, d)])

\* A sheet with 1234.5 of the first V&YOU product: the PAZ brand row, row
\* 11, holds 0 and the V&YOU brand row, row 25, holds 1234.5.
C19_Witness ==
    /\ ag_pc = "saved"
    /\ Len(sheets) = 1
    /\ sheets[1].name = SENTINEL
    /\ sheets[1].summary_rows[12] = <<PRODUCT_ORDER[11], << <<"float", 1234 * Scale + 500>> >> >>
    /\ sheets[1].summary_rows[11] = << << >>, << <<"int", 0>> >> >>
    /\ sheets[1].summary_rows[25] = << << >>, << <<"float", 1234 * Scale + 500>> >> >>

\* The rows of a listing that count: catalog product and parsable quantity.
UsableRows(listing) ==
    {k \in 1..Len(listing) :
        /\ InProductMap(normalize_product(listing[k][4]))
        /\ parse_quantity(listing[k][5]) # NoAmount}

\* The sum of the parsed quantities of the rows of S.
QuantitySum(listing, S) ==
    SumOver(S, [k \in 1..Len(listing) |->
                   IF parse_quantity(listing[k][5]) = NoAmount
                   THEN 0 ELSE parse_quantity(listing[k][5])[1]])

\* The sum of all cells of the product rows of a sheet's summary.
ProductCellSum(sh) ==
    LET product_rows == {r \in 1..Len(sh.summary_rows) : sh.summary_rows[r][1] # << >>}
        row_sum == [r \in 1..Len(sh.summary_rows) |->
                       SumOver(1..Len(sh.date_headers),
                               [d \in 1..Len(sh.date_headers) |-> Cell(sh, r, d)])]
    IN  SumOver(product_rows, row_sum)

\* C21: in every sheet the cells of the product rows add up to the sum of
\* the parsed quantities of the rows of the group that have a catalog
\* product and a parsable quantity, the rows without a date included.
C21_Conservation ==
    \A j \in 1..Len(sheets) :
        ProductCellSum(sheets[j])
          = QuantitySum(sheets[j].listing, UsableRows(sheets[j].listing))

\* The same statement for the groups whose counting rows all have a date.
C21_DatedRows ==
    \A j \in 1..Len(sheets) :
        (\A k \in UsableRows(sheets[j].listing) : sheets[j].listing[k][3] # << >>)
           => ProductCellSum(sheets[j])
                = QuantitySum(sheets[j].listing, UsableRows(sheets[j].listing))

\* ------------------------------------ the desktop window's runs: claims

TerminalKinds == {"done", "error"}

\* The positions of the terminal signals in a sequence of signals.
Terminals(sigs) == {k \in 1..Len(sigs) : sigs[k].kind \in TerminalKinds}

\* The run w has been started and has not yet emitted its terminal signal.
InProgress(w) == workers[w].pc # "finished"

\* The signals of run w that the main thread has handled, in order.
HandledOf(w) ==
    LET mine == SelectSeq(handled, LAMBDA h : h[1] = w)
    IN  [k \in 1..Len(mine) |-> mine[k][2]]

\* The main thread has handled the terminal signal of run w.
CompletionHandled(w) == Terminals(HandledOf(w)) # {}

\* C22: at most one run is in progress; the run button is disabled exactly
\* from the start of a run until its terminal signal is handled; a run
\* emits at most one terminal signal, one when it has finished, and it is
\* its last signal, after the progress signals 1, 2, ... of its total; the
\* window handles the signals in the order of emission; an abandoned start
\* leaves the button enabled and starts no run.
C22_RunLifecycle ==
    /\ Cardinality({w \in 1..Len(workers) : InProgress(w)}) <= 1
    /\ run_btn = (\A w \in 1..Len(workers) : CompletionHandled(w))
    /\ \A w \in 1..Len(workers) :
          LET emitted == workers[w].emitted
              ends    == Terminals(emitted)
          IN  /\ Cardinality(ends) <= 1
              /\ ~InProgress(w) => Cardinality(ends) = 1
              /\ \A k \in ends : k = Len(emitted)
              /\ \A k \in (1..Len(emitted)) \ ends :
                    emitted[k] = Progress(k, workers[w].total) /\ k <= workers[w].total
              /\ (emitted # << >> /\ emitted[Len(emitted)] = Done)
                    => Len(emitted) = workers[w].total + 1
              /\ Len(HandledOf(w)) <= Len(emitted)
              /\ HandledOf(w) = SubSeq(emitted, 1, Len(HandledOf(w)))
    /\ last_start.outcome \in {"no_file", "cancelled"} =>
          (run_btn /\ Len(workers) = last_start.runs_before)

\* Two runs, one after the other: the first ended with error at load time,
\* the second with done after the progress signals 1/2 and 2/2; both
\* terminal signals are handled and the button is enabled again.
C22_Witness ==
    /\ Len(workers) = 2
    /\ workers[1].emitted = <<Error>>
    /\ workers[2].emitted = <<Progress(1, 2), Progress(2, 2), Done>>
    /\ queue = << >>
    /\ Len(handled) = 4
    /\ run_btn

\* A start abandoned at the save dialog after a finished run.
C22_WitnessAbandoned ==
    /\ last_start = [outcome |-> "cancelled", runs_before |-> 1]
    /\ Len(workers) = 1
    /\ run_btn

====
